---- MODULE Spec2Model ----
(***************************************************************************)
(* Model of the rnb text-classification pipeline: the two Naive Bayes      *)
(* classifiers of src/src/bayes.rs, the Tokenizer of src/src/tokenizer.rs  *)
(* and the confusion matrix of src/src/metrics.rs.                         *)
(*                                                                         *)
(* Floating point.  Every f64 the classifiers compute is ln(P) (Bernoulli) *)
(* or exp(ln(P)) (Multinomial) of a product P of quotients of non-negative *)
(* numbers.  A score is kept as the pair <<n, d>> of P = n/d together with *)
(* the domain it is returned in; <<0, 0>> is NaN (0.0/0.0), d = 0 with     *)
(* n > 0 is +inf, n = 0 with d > 0 is ln 0 = -inf (resp. exp(-inf) = 0).   *)
(* IEEE sums of logarithms are products of pairs: -inf + x = -inf is       *)
(* 0 * x = 0, NaN + x = NaN is <<0,0>> * x = <<0,0>>.  Rounding of f64 is  *)
(* not modelled: scores compare as the exact reals they approximate.       *)
(***************************************************************************)
EXTENDS Integers, Sequences, FiniteSets, TLC

\* ---------------------------------------------------------------- bounds
\* n_features given to BernouliNB::new / MultinomialNB::new
NFeatures == 1
\* longest token slice passed to fit / predict / predict_probas
MaxTokens == 2
\* number of fit calls explored
MaxFits == 2
\* longest text passed to the tokenizer, in characters
MaxTextLen == 2
\* longest label list passed to confusion_matrix
MaxPairs == 2
\* num_classes given to confusion_matrix by main
NumClasses == 2
\* n_labels given to the constructors by create_model
NLabels == 2

VARIABLES
    variant,               \* which implementation of NaiveBayesClassifier
    feature_counts,        \* feature_counts[label][token]
    total_samples,
    target_counts,
    label_feature_totals,  \* MultinomialNB only (all zero for BernouliNB)
    laplace_factor,        \* <<numerator, denominator>> of the f64
    status,                \* the caller: "idle", "returned" from a call, or "panicked"
    call,                  \* the last call made on the classifier
    ret,                   \* what that call returned
    fit_calls,             \* history: per label, the fit calls that returned
    dict,                  \* Tokenizer.dict: the words in insertion order, ids from 0
    tstatus,               \* the tokenizer's caller: "idle" or "returned"
    tcall,                 \* the last call made on the tokenizer
    tret,                  \* the token ids that call returned
    observed,              \* history: one earlier fit, its text and the ids it returned
    predicted,             \* confusion_matrix's argument predicted
    real,                  \* confusion_matrix's argument real
    matrix,                \* the ConfusionMatrix returned, matrix[actual][predicted]
    cstatus,               \* "fresh", "built", "scored", or "panicked"
    accuracy               \* what ConfusionMatrix::accuracy returned, as <<n, d>>

nbvars == <<variant, feature_counts, total_samples, target_counts,
            label_feature_totals, laplace_factor, status, call, ret, fit_calls>>

tokvars == <<dict, tstatus, tcall, tret, observed>>

cmvars == <<predicted, real, matrix, cstatus, accuracy>>

vars == <<nbvars, tokvars, cmvars>>

\* ------------------------------------------------------------ input sets
Labels == 0..(NLabels - 1)
Features == 0..(NFeatures - 1)
\* token ids a caller may pass: NFeatures is an id outside the table
TokenIds == 0..NFeatures
\* labels a caller may pass: NLabels is a label outside the table
LabelArgs == 0..NLabels
TokenSeqs == UNION {[1..k -> TokenIds] : k \in 0..MaxTokens}
Variants == {"Bernoulli", "Multinomial"}
\* laplace_smoothing values given to the constructors
LaplaceChoices == {<<0, 1>>, <<1, 1>>}

\* ------------------------------------------------------------ arithmetic
RECURSIVE Gcd(_, _)
Gcd(a, b) == IF b = 0 THEN a ELSE Gcd(b, a % b)

\* canonical pair of the extended non-negative rational n/d
Norm(n, d) ==
    IF n = 0 /\ d = 0 THEN <<0, 0>>
    ELSE IF n = 0 THEN <<0, 1>>
    ELSE IF d = 0 THEN <<1, 0>>
    ELSE <<n \div Gcd(n, d), d \div Gcd(n, d)>>

\* f64 division a / b of two non-negative numbers given as pairs
Quot(a, b) == Norm(a[1] * b[2], a[2] * b[1])

\* ln(x) + ln(y) as the pair of x * y
Mul(x, y) == Norm(x[1] * y[1], x[2] * y[2])

RECURSIVE Pow(_, _)
\* c as f64 * ln(x) as the pair of x^c, c >= 1
Pow(x, c) == IF c = 1 THEN x ELSE Mul(x, Pow(x, c - 1))

\* count as f64 + k * laplace_factor, as a pair
Smoothed(count, k, alpha) == <<count * alpha[2] + k * alpha[1], alpha[2]>>

RECURSIVE Sum(_, _)
\* the sum of f over the index set S
Sum(f, S) ==
    IF S = {} THEN 0
    ELSE LET x == CHOOSE y \in S : TRUE IN f[x] + Sum(f, S \ {x})

IsNaN(s) == s.n = 0 /\ s.d = 0

\* f64::ln of the pair p: a score in the log domain
Ln(p) == [log |-> TRUE, n |-> p[1], d |-> p[2]]

\* f64::exp of ln of the pair p: a score in the linear domain
ExpLn(p) == [log |-> FALSE, n |-> p[1], d |-> p[2]]

\* a.partial_cmp(b).unwrap_or(Ordering::Equal) on two scores of one vector
CmpOrEqual(a, b) ==
    IF IsNaN(a) \/ IsNaN(b) THEN "Equal"
    ELSE IF a.n * b.d > b.n * a.d THEN "Greater"
    ELSE IF a.n * b.d < b.n * a.d THEN "Less"
    ELSE "Equal"

\* ------------------------------------------------------- classifier state
NewCounts == [l \in Labels |-> [t \in Features |-> 0]]
NewPerLabel == [l \in Labels |-> 0]

NoCall == [op |-> "none", tokens |-> <<>>, label |-> 0]
NoRet == [panicked |-> FALSE, probas |-> <<>>, label |-> 0]
Panic == [panicked |-> TRUE, probas |-> <<>>, label |-> 0]

Clf == [fc |-> feature_counts, total |-> total_samples, tc |-> target_counts,
        lft |-> label_feature_totals]

\* BernouliNB::new / MultinomialNB::new
NBInit ==
    /\ variant \in Variants
    /\ laplace_factor \in LaplaceChoices
    /\ feature_counts = NewCounts
    /\ total_samples = 0
    /\ target_counts = NewPerLabel
    /\ label_feature_totals = NewPerLabel
    /\ status = "idle"
    /\ call = NoCall
    /\ ret = NoRet
    /\ fit_calls = NewPerLabel

\* ---------------------------------------------------------------- fit
\* the for loop of BernouliNB::fit over tokens[i..]: indexing feature_counts
\* with a token outside the table panics and keeps the increments made so far
RECURSIVE BernoulliLoop(_, _, _, _)
BernoulliLoop(fc, tokens, label, i) ==
    IF i > Len(tokens) THEN [fc |-> fc, panicked |-> FALSE]
    ELSE IF tokens[i] \notin Features THEN [fc |-> fc, panicked |-> TRUE]
    ELSE BernoulliLoop([fc EXCEPT ![label][tokens[i]] = @ + 1], tokens, label, i + 1)

\* BernouliNB::fit with the assertion on the label made after the loop: a label
\* outside the table is noticed only once the counts have been touched
BernoulliFitLateAssert(c, tokens, label) ==
    LET l == IF label < NLabels THEN label ELSE NLabels - 1
        r == BernoulliLoop(c.fc, tokens, l, 1)
    IN IF r.panicked \/ ~(label < NLabels)
       THEN [clf |-> [c EXCEPT !.fc = r.fc], panicked |-> TRUE]
       ELSE [clf |-> [c EXCEPT !.fc = r.fc, !.total = @ + 1, !.tc[label] = @ + 1],
             panicked |-> FALSE]

\* BernouliNB::fit on classifier c; the result carries whether it panicked
BernoulliFit(c, tokens, label) ==
    IF ~(label < NLabels) THEN [clf |-> c, panicked |-> TRUE]
    ELSE LET r == BernoulliLoop(c.fc, tokens, label, 1)
         IN IF r.panicked THEN [clf |-> [c EXCEPT !.fc = r.fc], panicked |-> TRUE]
            ELSE [clf |-> [c EXCEPT !.fc = r.fc, !.total = @ + 1, !.tc[label] = @ + 1],
                  panicked |-> FALSE]

\* the HashMap built by the fold of MultinomialNB::fit / predict_probas
TokenMap(tokens) ==
    [t \in {tokens[i] : i \in 1..Len(tokens)} |->
        Cardinality({i \in 1..Len(tokens) : tokens[i] = t})]

\* the for_each of MultinomialNB::fit over the map's entries in the order
\* `order` (a sequence of the map's keys): an entry outside the table panics
\* before it changes anything and keeps the entries added so far
RECURSIVE MultinomialLoop(_, _, _, _, _)
MultinomialLoop(c, map, order, target, i) ==
    IF i > Len(order) THEN [clf |-> c, panicked |-> FALSE]
    ELSE IF order[i] \notin Features THEN [clf |-> c, panicked |-> TRUE]
    ELSE MultinomialLoop(
            [c EXCEPT !.fc[target][order[i]] = @ + map[order[i]],
                      !.lft[target] = @ + map[order[i]]],
            map, order, target, i + 1)

\* the orders in which a HashMap with these keys may be iterated
Orders(keys) ==
    {o \in [1..Cardinality(keys) -> keys] :
        \A i, j \in 1..Cardinality(keys) : i # j => o[i] # o[j]}

\* MultinomialNB::fit that adds 1 per distinct token to label_feature_totals
\* instead of the token's count
MultinomialFitTotalsByOne(c, tokens, target, order) ==
    IF ~(target < NLabels) THEN [clf |-> c, panicked |-> TRUE]
    ELSE LET r == MultinomialLoop(c, TokenMap(tokens), order, target, 1)
             keys == {order[i] : i \in 1..Len(order)}
         IN IF r.panicked THEN r
            ELSE [clf |-> [r.clf EXCEPT !.total = @ + 1, !.tc[target] = @ + 1,
                                        !.lft[target] = c.lft[target] + Cardinality(keys)],
                  panicked |-> FALSE]

\* MultinomialNB::fit that stores a token's count instead of adding it
MultinomialFitAssign(c, tokens, target, order) ==
    IF ~(target < NLabels) THEN [clf |-> c, panicked |-> TRUE]
    ELSE LET r == MultinomialLoop(c, TokenMap(tokens), order, target, 1)
             map == TokenMap(tokens)
         IN IF r.panicked THEN r
            ELSE [clf |-> [r.clf EXCEPT !.total = @ + 1, !.tc[target] = @ + 1,
                             !.fc[target] = [t \in Features |->
                                 IF t \in DOMAIN map THEN map[t] ELSE c.fc[target][t]]],
                  panicked |-> FALSE]

\* MultinomialNB::fit on classifier c, the map iterated in `order`
MultinomialFit(c, tokens, target, order) ==
    IF ~(target < NLabels) THEN [clf |-> c, panicked |-> TRUE]
    ELSE LET r == MultinomialLoop(c, TokenMap(tokens), order, target, 1)
         IN IF r.panicked THEN r
            ELSE [clf |-> [r.clf EXCEPT !.total = @ + 1, !.tc[target] = @ + 1],
                  panicked |-> FALSE]

\* the outcome of a fit call is written back to the classifier
Store(r, tokens, label) ==
    /\ feature_counts' = r.clf.fc
    /\ total_samples' = r.clf.total
    /\ target_counts' = r.clf.tc
    /\ label_feature_totals' = r.clf.lft
    /\ status' = IF r.panicked THEN "panicked" ELSE "returned"
    /\ call' = [op |-> "fit", tokens |-> tokens, label |-> label]
    /\ ret' = IF r.panicked THEN Panic ELSE NoRet
    /\ fit_calls' = IF r.panicked THEN fit_calls
                    ELSE [fit_calls EXCEPT ![label] = @ + 1]
    /\ UNCHANGED <<variant, laplace_factor, tokvars, cmvars>>

\* NaiveBayesClassifier::fit(tokens, label)
Fit ==
    /\ status = "idle"
    /\ Sum(fit_calls, Labels) < MaxFits
    /\ \E tokens \in TokenSeqs, label \in LabelArgs :
        IF variant = "Bernoulli"
        THEN Store(BernoulliFit(Clf, tokens, label), tokens, label)
        ELSE \E order \in Orders(DOMAIN TokenMap(tokens)) :
                Store(MultinomialFit(Clf, tokens, label, order), tokens, label)

\* ------------------------------------------------------------ inference
\* what predict_probas would skip: the ids inside the feature table
InTable(token) == token < NFeatures

\* the inner loop of BernouliNB::predict_probas for label tgt over tokens[i..],
\* prob being the sum of logarithms so far; a token outside the table panics
RECURSIVE BernoulliSum(_, _, _, _, _, _)
BernoulliSum(c, alpha, tokens, tgt, prob, i) ==
    IF i > Len(tokens) THEN [panicked |-> FALSE, prob |-> prob]
    ELSE IF tokens[i] \notin Features THEN [panicked |-> TRUE, prob |-> prob]
    ELSE BernoulliSum(c, alpha, tokens, tgt,
            Mul(prob, Quot(Smoothed(c.fc[tgt][tokens[i]], 1, alpha),
                           Smoothed(c.tc[tgt], NLabels, alpha))),
            i + 1)

\* BernouliNB::predict_probas: log-probabilities, or a panic
BernoulliProbas(c, alpha, tokens) ==
    LET row(tgt) == BernoulliSum(c, alpha, tokens, tgt, <<1, 1>>, 1)
        prior(tgt) == Quot(Smoothed(c.tc[tgt], 1, alpha), Smoothed(c.total, 2, alpha))
    IN IF \E tgt \in Labels : row(tgt).panicked THEN Panic
       ELSE [panicked |-> FALSE,
             probas |-> [tgt \in Labels |-> Ln(Mul(row(tgt).prob, prior(tgt)))],
             label |-> 0]

\* the loop of MultinomialNB::predict_probas over the map's entries `keys`
\* still to visit, log_prob being the sum so far; ids >= n_features are skipped
RECURSIVE MultinomialSum(_, _, _, _, _, _)
MultinomialSum(c, alpha, map, keys, tgt, log_prob) ==
    IF keys = {} THEN log_prob
    ELSE LET token == CHOOSE t \in keys : \A u \in keys : t <= u
             token_prob == Quot(Smoothed(c.fc[tgt][token], 1, alpha),
                                Smoothed(c.lft[tgt], NFeatures, alpha))
         IN IF token >= NFeatures
            THEN MultinomialSum(c, alpha, map, keys \ {token}, tgt, log_prob)
            ELSE MultinomialSum(c, alpha, map, keys \ {token}, tgt,
                                Mul(log_prob, Pow(token_prob, map[token])))

\* MultinomialNB::predict_probas: exponentiated scores
MultinomialProbas(c, alpha, tokens) ==
    LET map == TokenMap(tokens)
        prior(tgt) == Quot(Smoothed(c.tc[tgt], 1, alpha),
                           Smoothed(c.total, NLabels, alpha))
    IN [panicked |-> FALSE,
        probas |-> [tgt \in Labels |->
                      ExpLn(MultinomialSum(c, alpha, map, DOMAIN map, tgt, prior(tgt)))],
        label |-> 0]

\* NaiveBayesClassifier::predict_probas of variant v
PredictProbasOf(v, c, alpha, tokens) ==
    IF v = "Bernoulli" THEN BernoulliProbas(c, alpha, tokens)
    ELSE MultinomialProbas(c, alpha, tokens)

RECURSIVE MaxByKeepsFirst(_, _, _)
\* an arg-max that keeps the earlier of two elements comparing Equal
MaxByKeepsFirst(probas, best, j) ==
    IF j > NLabels - 1 THEN best
    ELSE IF CmpOrEqual(probas[best], probas[j]) = "Less"
         THEN MaxByKeepsFirst(probas, j, j + 1)
         ELSE MaxByKeepsFirst(probas, best, j + 1)

\* Iterator::max_by over the enumerated scores from index j on, best being the
\* index kept so far: the kept element gives way unless it compares Greater
RECURSIVE MaxBy(_, _, _)
MaxBy(probas, best, j) ==
    IF j > NLabels - 1 THEN best
    ELSE IF CmpOrEqual(probas[best], probas[j]) = "Greater"
         THEN MaxBy(probas, best, j + 1)
         ELSE MaxBy(probas, j, j + 1)

\* NaiveBayesClassifier::predict of variant v
PredictOf(v, c, alpha, tokens) ==
    LET r == PredictProbasOf(v, c, alpha, tokens)
    IN IF r.panicked THEN Panic
       ELSE [panicked |-> FALSE, probas |-> <<>>, label |-> MaxBy(r.probas, 0, 1)]

\* what a call on &self leaves alone
Unfitted == UNCHANGED <<variant, feature_counts, total_samples, target_counts,
                        label_feature_totals, laplace_factor, fit_calls,
                        tokvars, cmvars>>

\* NaiveBayesClassifier::predict_probas(tokens)
PredictProbas ==
    /\ status = "idle"
    /\ \E tokens \in TokenSeqs :
        LET r == PredictProbasOf(variant, Clf, laplace_factor, tokens)
        IN /\ call' = [op |-> "predict_probas", tokens |-> tokens, label |-> 0]
           /\ ret' = r
           /\ status' = IF r.panicked THEN "panicked" ELSE "returned"
    /\ Unfitted

\* NaiveBayesClassifier::predict(tokens)
Predict ==
    /\ status = "idle"
    /\ \E tokens \in TokenSeqs :
        LET r == PredictOf(variant, Clf, laplace_factor, tokens)
        IN /\ call' = [op |-> "predict", tokens |-> tokens, label |-> 0]
           /\ ret' = r
           /\ status' = IF r.panicked THEN "panicked" ELSE "returned"
    /\ Unfitted

\* the caller takes what the call returned and goes on to its next call
Return ==
    /\ status = "returned"
    /\ status' = "idle"
    /\ call' = NoCall
    /\ ret' = NoRet
    /\ Unfitted

NBNext == Fit \/ PredictProbas \/ Predict \/ Return


\* ---------------------------------------------------------------- tokenizer
\* the characters of a text: a letter, a whitespace and a punctuation character
Chars == {"a", " ", "!"}
\* the characters the pattern given to Tokenizer::new matches
Punct == {"!"}
\* the characters \s and split_whitespace match
White == {" "}
\* a text is the sequence of its characters
Texts == UNION {[1..k -> Chars] : k \in 0..MaxTextLen}

RECURSIVE PadPunct(_)
\* re.replace_all(text, " $1 "): every punctuation character, space-padded
PadPunct(text) ==
    IF text = <<>> THEN <<>>
    ELSE (IF Head(text) \in Punct THEN <<" ", Head(text), " ">> ELSE <<Head(text)>>)
            \o PadPunct(Tail(text))

RECURSIVE DropWhite(_)
\* the text without its leading whitespace
DropWhite(text) ==
    IF text # <<>> /\ Head(text) \in White THEN DropWhite(Tail(text)) ELSE text

RECURSIVE Collapse(_)
\* replace_all of \s{2,} by " ": a run of two or more whitespace characters
\* becomes one space, a single whitespace character stays what it is
Collapse(text) ==
    IF text = <<>> THEN <<>>
    ELSE IF Head(text) \in White /\ Len(text) >= 2 /\ text[2] \in White
         THEN <<" ">> \o Collapse(DropWhite(text))
         ELSE <<Head(text)>> \o Collapse(Tail(text))

RECURSIVE Reverse(_)
Reverse(text) == IF text = <<>> THEN <<>> ELSE Append(Reverse(Tail(text)), Head(text))

\* str::trim
Trim(text) == Reverse(DropWhite(Reverse(DropWhite(text))))

\* Tokenizer::normalize
Normalize(text) == Trim(Collapse(PadPunct(text)))

RECURSIVE FirstWord(_)
\* the characters of text up to its first whitespace
FirstWord(text) ==
    IF text = <<>> \/ Head(text) \in White THEN <<>>
    ELSE <<Head(text)>> \o FirstWord(Tail(text))

RECURSIVE SplitWhitespace(_)
\* str::split_whitespace: the maximal runs of non-whitespace, in order
SplitWhitespace(text) ==
    LET rest == DropWhite(text)
    IN IF rest = <<>> THEN <<>>
       ELSE <<FirstWord(rest)>>
              \o SplitWhitespace(SubSeq(rest, Len(FirstWord(rest)) + 1, Len(rest)))

\* IndexSet::get_index_of: the id of word w, or -1 for None
GetIndexOf(d, w) ==
    IF \E i \in 1..Len(d) : d[i] = w
    THEN (CHOOSE i \in 1..Len(d) : d[i] = w) - 1
    ELSE -1

\* an insertion that puts a new word in front of the others
InsertFront(d, w) ==
    IF \E i \in 1..Len(d) : d[i] = w
    THEN [dict |-> d, idx |-> (CHOOSE i \in 1..Len(d) : d[i] = w) - 1]
    ELSE [dict |-> <<w>> \o d, idx |-> 0]

\* IndexSet::insert_full: the set after the insertion and the word's id
InsertFull(d, w) ==
    IF GetIndexOf(d, w) >= 0 THEN [dict |-> d, idx |-> GetIndexOf(d, w)]
    ELSE [dict |-> Append(d, w), idx |-> Len(d)]

RECURSIVE FitWords(_, _)
\* the map of Tokenizer::fit over the words: each is inserted, its id collected
FitWords(d, words) ==
    IF words = <<>> THEN [dict |-> d, ids |-> <<>>]
    ELSE LET r == InsertFull(d, Head(words))
             rest == FitWords(r.dict, Tail(words))
         IN [dict |-> rest.dict, ids |-> <<r.idx>> \o rest.ids]

\* Tokenizer::fit
TokenizerFit(d, text) == FitWords(d, SplitWhitespace(Normalize(text)))

RECURSIVE LookupWords(_, _)
\* filter_map(|w| self.dict.get_index_of(w)): the ids of the words that have one
LookupWords(d, words) ==
    IF words = <<>> THEN <<>>
    ELSE (IF GetIndexOf(d, Head(words)) >= 0 THEN <<GetIndexOf(d, Head(words))>> ELSE <<>>)
            \o LookupWords(d, Tail(words))

\* a tokenize that gives a repeated word's id once
TokenizeOnce(d, text) ==
    LET ids == LookupWords(d, SplitWhitespace(Normalize(text)))
    IN SelectSeq([i \in 1..Len(ids) |-> IF \E j \in 1..(i - 1) : ids[j] = ids[i]
                                        THEN -1 ELSE ids[i]],
                 LAMBDA x : x >= 0)

\* Tokenizer::tokenize
Tokenize(d, text) == LookupWords(d, SplitWhitespace(Normalize(text)))

RECURSIVE Insert(_, _)
\* x put into the ascending sequence s
Insert(s, x) ==
    IF s = <<>> THEN <<x>>
    ELSE IF x <= Head(s) THEN <<x>> \o s
    ELSE <<Head(s)>> \o Insert(Tail(s), x)

RECURSIVE SortUnstable(_)
\* slice::sort_unstable on ids
SortUnstable(s) == IF s = <<>> THEN <<>> ELSE Insert(SortUnstable(Tail(s)), Head(s))

RECURSIVE Dedup(_)
\* Vec::dedup: consecutive repeated elements removed
Dedup(s) ==
    IF Len(s) < 2 THEN s
    ELSE IF s[1] = s[2] THEN Dedup(Tail(s))
    ELSE <<Head(s)>> \o Dedup(Tail(s))

\* a tokenize_sparse that sorts and does not dedup
TokenizeSorted(d, text) == SortUnstable(Tokenize(d, text))

\* Tokenizer::tokenize_sparse
TokenizeSparse(d, text) == Dedup(SortUnstable(Tokenize(d, text)))

\* Tokenizer::token_count
TokenCount(d) == Len(d)

NoText == [op |-> "none", text |-> <<>>]
NotObserved == [seen |-> FALSE, text |-> <<>>, ids |-> <<>>]

\* Tokenizer::new
TokInit ==
    /\ dict = <<>>
    /\ tstatus = "idle"
    /\ tcall = NoText
    /\ tret = <<>>
    /\ observed = NotObserved

\* Tokenizer::fit(text); the history may keep this call as the observed one
TokFit ==
    /\ tstatus = "idle"
    /\ \E text \in Texts, keep \in BOOLEAN :
        LET r == TokenizerFit(dict, text)
        IN /\ dict' = r.dict
           /\ tcall' = [op |-> "fit", text |-> text]
           /\ tret' = r.ids
           /\ observed' = IF keep THEN [seen |-> TRUE, text |-> text, ids |-> r.ids]
                          ELSE observed
    /\ tstatus' = "returned"
    /\ UNCHANGED <<nbvars, cmvars>>

\* Tokenizer::tokenize(text)
TokTokenize ==
    /\ tstatus = "idle"
    /\ \E text \in Texts :
        /\ tcall' = [op |-> "tokenize", text |-> text]
        /\ tret' = Tokenize(dict, text)
    /\ tstatus' = "returned"
    /\ UNCHANGED <<dict, observed, nbvars, cmvars>>

\* Tokenizer::tokenize_sparse(text)
TokTokenizeSparse ==
    /\ tstatus = "idle"
    /\ \E text \in Texts :
        /\ tcall' = [op |-> "tokenize_sparse", text |-> text]
        /\ tret' = TokenizeSparse(dict, text)
    /\ tstatus' = "returned"
    /\ UNCHANGED <<dict, observed, nbvars, cmvars>>

\* the caller takes the ids and goes on to its next call
TokReturn ==
    /\ tstatus = "returned"
    /\ tstatus' = "idle"
    /\ tcall' = NoText
    /\ tret' = <<>>
    /\ UNCHANGED <<dict, observed, nbvars, cmvars>>

TokNext == TokFit \/ TokTokenize \/ TokTokenizeSparse \/ TokReturn

\* a classifier that is constructed and not used
NBUnused ==
    /\ variant = "Multinomial"
    /\ laplace_factor = <<1, 1>>
    /\ feature_counts = NewCounts
    /\ total_samples = 0
    /\ target_counts = NewPerLabel
    /\ label_feature_totals = NewPerLabel
    /\ status = "idle"
    /\ call = NoCall
    /\ ret = NoRet
    /\ fit_calls = NewPerLabel

\* ----------------------------------------------------------------- metrics
Classes == 0..(NumClasses - 1)
\* label lists a caller may pass: NumClasses is a label outside the matrix
LabelSeqs == UNION {[1..k -> 0..NumClasses] : k \in 0..MaxPairs}

ZeroMatrix == [r \in Classes |-> [p \in Classes |-> 0]]
NoMatrix == <<>>
NoAccuracy == <<>>

RECURSIVE CountLoop(_, _, _, _)
\* the for loop of confusion_matrix over the zipped pairs from i on: a label
\* outside the matrix panics on the index
CountLoop(m, pred, act, i) ==
    IF i > Len(pred) \/ i > Len(act) THEN [matrix |-> m, panicked |-> FALSE]
    ELSE IF act[i] \notin Classes \/ pred[i] \notin Classes
         THEN [matrix |-> m, panicked |-> TRUE]
    ELSE CountLoop([m EXCEPT ![act[i]][pred[i]] = @ + 1], pred, act, i + 1)

\* a count loop that indexes the matrix [predicted][actual]
CountTransposed(pred, act) ==
    IF Len(pred) # Len(act) THEN [matrix |-> NoMatrix, panicked |-> TRUE]
    ELSE CountLoop(ZeroMatrix, act, pred, 1)

\* confusion_matrix(predicted, real, num_classes)
ConfusionMatrixOf(pred, act) ==
    IF Len(pred) # Len(act) THEN [matrix |-> NoMatrix, panicked |-> TRUE]
    ELSE CountLoop(ZeroMatrix, pred, act, 1)

\* the diagonal and the entries of matrix m, summed
TotalCorrect(m) == Sum([i \in Classes |-> m[i][i]], Classes)
TotalSamples(m) == Sum([r \in Classes |-> Sum(m[r], Classes)], Classes)

\* an accuracy that divides the correct by the incorrect
AccuracyOverErrors(m) == Norm(TotalCorrect(m), TotalSamples(m) - TotalCorrect(m))

\* ConfusionMatrix::accuracy: total_correct as f64 / total_samples as f64
AccuracyOf(m) == Norm(TotalCorrect(m), TotalSamples(m))

\* the arguments main or a test hands to confusion_matrix
CMInit ==
    /\ predicted \in LabelSeqs
    /\ real \in LabelSeqs
    /\ matrix = NoMatrix
    /\ cstatus = "fresh"
    /\ accuracy = NoAccuracy

\* metrics that are not computed
CMUnused ==
    /\ predicted = <<>>
    /\ real = <<>>
    /\ matrix = NoMatrix
    /\ cstatus = "fresh"
    /\ accuracy = NoAccuracy

\* confusion_matrix(predicted, real, num_classes)
ConfusionMatrix ==
    /\ cstatus = "fresh"
    /\ LET r == ConfusionMatrixOf(predicted, real)
       IN /\ matrix' = IF r.panicked THEN NoMatrix ELSE r.matrix
          /\ cstatus' = IF r.panicked THEN "panicked" ELSE "built"
    /\ UNCHANGED <<predicted, real, accuracy, nbvars, tokvars>>

\* ConfusionMatrix::accuracy
Accuracy ==
    /\ cstatus = "built"
    /\ accuracy' = AccuracyOf(matrix)
    /\ cstatus' = "scored"
    /\ UNCHANGED <<predicted, real, matrix, nbvars, tokvars>>

CMNext == ConfusionMatrix \/ Accuracy

\* ------------------------------------------------------------ specifications
NBStart == NBInit /\ TokInit /\ CMUnused

SpecNB == NBStart /\ [][NBNext]_vars

TokStart == TokInit /\ NBUnused /\ CMUnused

SpecTok == TokStart /\ [][TokNext]_vars

CMStart == CMInit /\ NBUnused /\ TokInit

SpecCM == CMStart /\ [][CMNext]_vars

\* ------------------------------------------------------- classifier claims
\* f64 comparison of two scores of one vector: NaN is neither greater than nor
\* equal to anything
Gt(a, b) == ~IsNaN(a) /\ ~IsNaN(b) /\ a.n * b.d > b.n * a.d

\* the labels whose score is maximal in the vector probas
Maximal(probas) ==
    {l \in Labels : ~IsNaN(probas[l]) /\ \A m \in Labels : ~Gt(probas[m], probas[l])}

Least(S) == CHOOSE x \in S : \A y \in S : x <= y
Greatest(S) == CHOOSE x \in S : \A y \in S : x >= y

\* the scores predict_probas gives for the query of the last call
ScoresOfCall == PredictProbasOf(variant, Clf, laplace_factor, call.tokens).probas

PredictReturned == call.op = "predict" /\ status = "returned"

\* C1 as stated: when two or more labels have exactly equal maximal scores in
\* predict_probas(tokens), predict(tokens) returns the lowest label index among
\* the tied labels.
C1_LowestTiedLabelWins ==
    (PredictReturned /\ Cardinality(Maximal(ScoresOfCall)) >= 2)
        => ret.label = Least(Maximal(ScoresOfCall))

\* C1 amended: when no score of predict_probas(tokens) is NaN and two or more
\* labels have exactly equal maximal scores, predict(tokens) returns the highest
\* label index among the tied labels (max_by keeps the last of equal maxima).
C1_HighestTiedLabelWins ==
    (/\ PredictReturned
     /\ \A l \in Labels : ~IsNaN(ScoresOfCall[l])
     /\ Cardinality(Maximal(ScoresOfCall)) >= 2)
        => ret.label = Greatest(Maximal(ScoresOfCall))

\* C1 witness: predict has returned on a fitted classifier whose scores for the
\* query tie at the maximum
C1_Witness ==
    /\ PredictReturned
    /\ total_samples = 2
    /\ Len(call.tokens) > 0
    /\ \A l \in Labels : ~IsNaN(ScoresOfCall[l])
    /\ Cardinality(Maximal(ScoresOfCall)) >= 2
    /\ ret.label = NLabels - 1

\* the query of the last call with every token id >= n_features removed
KnownTokens == SelectSeq(call.tokens, InTable)

\* C2 as stated: a token id >= n_features passed to predict or predict_probas is
\* silently ignored by both variants: the call does not fail and returns what
\* the same query with every such token removed returns.
C2_UnknownTokensIgnored ==
    (/\ call.op \in {"predict", "predict_probas"}
     /\ \E i \in 1..Len(call.tokens) : ~InTable(call.tokens[i]))
        => /\ status = "returned"
           /\ ~ret.panicked
           /\ ret = IF call.op = "predict"
                    THEN PredictOf(variant, Clf, laplace_factor, KnownTokens)
                    ELSE PredictProbasOf(variant, Clf, laplace_factor, KnownTokens)

\* C3: after any sequence of n fit calls that returned on a fresh classifier,
\* target_counts[l] is the number of fit calls made with label l,
\* total_samples = sum(target_counts) = n, and for MultinomialNB
\* label_feature_totals[l] is the sum over t of feature_counts[l][t].
C3_CountConservation ==
    status # "panicked" =>
        /\ \A l \in Labels : target_counts[l] = fit_calls[l]
        /\ total_samples = Sum(target_counts, Labels)
        /\ total_samples = Sum(fit_calls, Labels)
        /\ variant = "Multinomial" =>
              \A l \in Labels : label_feature_totals[l] = Sum(feature_counts[l], Features)

\* C3 witness: a MultinomialNB has returned from its second fit, one call per
\* label, one of them with a repeated token
C3_Witness ==
    /\ variant = "Multinomial"
    /\ status = "returned" /\ call.op = "fit"
    /\ fit_calls = [l \in Labels |-> 1]
    /\ \E l \in Labels : \E t \in Features : feature_counts[l][t] >= 2

\* C9: fit(tokens, label) with label >= n_labels fails at once, before
\* feature_counts, target_counts, total_samples or label_feature_totals is
\* modified: the classifier after the failed call is the classifier before it.
C9_BadLabelFailsUnchanged ==
    [][(call'.op = "fit" /\ status = "idle" /\ call'.label >= NLabels)
          => (status' = "panicked" /\ ret'.panicked /\ Clf' = Clf)]_vars

\* C9 witness: a fit with a label outside the table has panicked on a classifier
\* that had been fitted, with tokens it could have counted
C9_Witness ==
    /\ status = "panicked" /\ call.op = "fit"
    /\ call.label >= NLabels
    /\ total_samples > 0
    /\ \E i \in 1..Len(call.tokens) : InTable(call.tokens[i])

\* the examples fit accepts: token ids < n_features and a label < n_labels
ValidExamples ==
    {e \in [tokens : TokenSeqs, label : Labels] :
        \A i \in 1..Len(e.tokens) : InTable(e.tokens[i])}

\* the classifier c of variant v after fit(e.tokens, e.label) has returned
AfterFit(v, c, e) ==
    IF v = "Bernoulli" THEN BernoulliFit(c, e.tokens, e.label).clf
    ELSE LET order == CHOOSE o \in Orders(DOMAIN TokenMap(e.tokens)) : TRUE
         IN MultinomialFit(c, e.tokens, e.label, order).clf

\* C10: the classifier after fitting a multiset of valid examples is the same
\* for every order of the fit calls.  Every order is reached from any other by
\* exchanging neighbours, so: whenever a fit of e returns, having any valid
\* example f fitted just before e instead of just after it ends in the same
\* classifier.
C10_FitOrderIrrelevant ==
    [][(call'.op = "fit" /\ status = "idle" /\ status' = "returned")
          => \A f \in ValidExamples :
                AfterFit(variant, Clf', f)
                  = AfterFit(variant, AfterFit(variant, Clf, f),
                             [tokens |-> call'.tokens, label |-> call'.label])]_vars

\* C10 witness: a second fit has returned, the two calls with different labels
\* and token counts
C10_Witness ==
    /\ status = "returned" /\ call.op = "fit"
    /\ fit_calls = [l \in Labels |-> 1]
    /\ \E l, m \in Labels : \E t \in Features : feature_counts[l][t] > feature_counts[m][t]

\* -------------------------------------------------------- tokenizer claims
\* the words fit and tokenize see in a text
Words(text) == SplitWhitespace(Normalize(text))

Range(q) == {q[i] : i \in 1..Len(q)}

\* where word w first occurs in words
FirstAt(w, words) == CHOOSE i \in 1..Len(words) : words[i] = w /\ \A j \in 1..(i - 1) : words[j] # w

\* added holds exactly the words of `words` that d lacks, once each, in the
\* order of their first occurrence
FirstOccurrenceOrder(added, d, words) ==
    /\ Range(added) = Range(words) \ Range(d)
    /\ \A i, j \in 1..Len(added) :
          i < j => FirstAt(added[i], words) < FirstAt(added[j], words)

\* C4: the vocabulary maps its words one-to-one onto the ids 0..token_count()-1;
\* a word keeps its id forever; a fit adds new words only, with the ids from the
\* previous token_count() on, in first-occurrence order; tokenize and
\* tokenize_sparse never change the vocabulary.
C4_VocabularyStable ==
    [][/\ \A i, j \in 1..TokenCount(dict') : dict'[i] = dict'[j] => i = j
       /\ \A w \in Range(dict') : GetIndexOf(dict', w) \in 0..(TokenCount(dict') - 1)
       /\ \A w \in Range(dict) : GetIndexOf(dict', w) = GetIndexOf(dict, w)
       /\ tcall'.op = "fit" =>
             /\ SubSeq(dict', 1, TokenCount(dict)) = dict
             /\ FirstOccurrenceOrder(SubSeq(dict', TokenCount(dict) + 1, TokenCount(dict')),
                                     dict, Words(tcall'.text))
       /\ tcall'.op \in {"tokenize", "tokenize_sparse"} => dict' = dict]_vars

\* C4 witness: a fit has returned an id the vocabulary already had and the id
\* of a word it added, on a vocabulary of three words
C4_Witness ==
    /\ tstatus = "returned" /\ tcall.op = "fit"
    /\ TokenCount(dict) = 3
    /\ Len(tret) = 2
    /\ tret[1] = 2 /\ tret[2] = 0

\* C5: if ids = fit(x), then tokenize(x) at any later point, after any further
\* fit calls, returns exactly ids.
C5_TokenizeRepeatsFit ==
    (tstatus = "returned" /\ tcall.op = "tokenize"
        /\ observed.seen /\ observed.text = tcall.text)
        => tret = observed.ids

\* C5 witness: tokenize(x) has returned after fit(x) and a later fit that added
\* a word, x having two words, the second with the smaller id
C5_Witness ==
    /\ tstatus = "returned" /\ tcall.op = "tokenize"
    /\ observed.seen /\ observed.text = tcall.text
    /\ Len(observed.ids) = 2 /\ observed.ids[1] > observed.ids[2]
    /\ TokenCount(dict) > observed.ids[1] + 1

StrictlyAscending(q) == \A i \in 1..(Len(q) - 1) : q[i] < q[i + 1]

\* the ids of the words of text that the vocabulary d holds
KnownIds(d, text) == {GetIndexOf(d, w) : w \in Range(Words(text)) \cap Range(d)}

\* C6: tokenize_sparse(x) is strictly ascending, its set of ids is the set of
\* ids in tokenize(x), and words absent from the vocabulary contribute no id to
\* either result.
C6_SparseSortedDeduped ==
    /\ (tstatus = "returned" /\ tcall.op = "tokenize_sparse") =>
          /\ StrictlyAscending(tret)
          /\ Range(tret) = Range(Tokenize(dict, tcall.text))
          /\ Range(tret) = KnownIds(dict, tcall.text)
    /\ (tstatus = "returned" /\ tcall.op = "tokenize") =>
          /\ Range(tret) = KnownIds(dict, tcall.text)
          /\ Len(tret) = Cardinality({i \in 1..Len(Words(tcall.text)) :
                                        Words(tcall.text)[i] \in Range(dict)})

\* C6 witness: tokenize_sparse has returned for a text whose ids tokenize gives
\* in descending order, on a vocabulary that lacks none of its words
C6_Witness ==
    /\ tstatus = "returned" /\ tcall.op = "tokenize_sparse"
    /\ Len(Tokenize(dict, tcall.text)) = 2
    /\ Tokenize(dict, tcall.text)[1] > Tokenize(dict, tcall.text)[2]
    /\ Len(tret) = 2

\* ---------------------------------------------------------- metrics claims
\* the arguments confusion_matrix accepts
ValidLabels ==
    /\ Len(predicted) = Len(real)
    /\ \A i \in 1..Len(predicted) : predicted[i] < NumClasses /\ real[i] < NumClasses

\* C7: for predicted and actual lists of equal length with labels < num_classes,
\* confusion_matrix returns a num_classes x num_classes matrix whose entry [a][p]
\* is the number of positions i with actual[i] = a and predicted[i] = p, so all
\* entries sum to len(predicted) = len(actual); when the lengths differ the call
\* fails instead of returning a matrix.
C7_MatrixCountsPairs ==
    cstatus # "fresh" =>
        /\ ValidLabels =>
              /\ cstatus \in {"built", "scored"}
              /\ DOMAIN matrix = Classes
              /\ \A a \in Classes : DOMAIN matrix[a] = Classes
              /\ \A a, p \in Classes :
                    matrix[a][p] = Cardinality({i \in 1..Len(real) :
                                                  real[i] = a /\ predicted[i] = p})
              /\ TotalSamples(matrix) = Len(predicted)
              /\ TotalSamples(matrix) = Len(real)
        /\ Len(predicted) # Len(real) => (cstatus = "panicked" /\ matrix = NoMatrix)

\* C7 witness: a matrix has been built from two pairs, one of them a label 0
\* predicted as 1
C7_Witness ==
    /\ cstatus = "built"
    /\ Len(predicted) = 2
    /\ matrix[0][1] = 1 /\ matrix[1][1] = 1

InUnitInterval(v) == v[2] > 0 /\ 0 <= v[1] /\ v[1] <= v[2]

AccuracyBounds ==
    /\ InUnitInterval(accuracy)
    /\ predicted = real => accuracy = <<1, 1>>
    /\ (\A i \in Classes : matrix[i][i] = 0) => accuracy = <<0, 1>>

\* C8 as stated: for every matrix built from valid inputs, the empty input
\* included, accuracy() lies in [0, 1], is 1 when predicted = actual
\* elementwise and is 0 when no diagonal entry is populated.
C8_AccuracyBoundsAlways == (cstatus = "scored" /\ ValidLabels) => AccuracyBounds

\* C8 amended: for every matrix built from valid inputs that are not empty,
\* accuracy() lies in [0, 1], is 1 when predicted = actual elementwise and is 0
\* when no diagonal entry is populated; for the empty input it is NaN (0.0/0.0).
C8_AccuracyBoundsNonEmpty ==
    (cstatus = "scored" /\ ValidLabels) =>
        IF Len(predicted) = 0 THEN accuracy = <<0, 0>> ELSE AccuracyBounds

\* C8 witness: accuracy has returned one half for two pairs, one of them right
C8_Witness ==
    /\ cstatus = "scored"
    /\ Len(predicted) = 2
    /\ accuracy = <<1, 2>>
====
